---- MODULE Spec2Model ----
(***************************************************************************)
(* botao::text -- the field tokenizer (next_field, enum_fields), the       *)
(* DataRecordReader with its one-record peek slot, and the DataBlockReader *)
(* (next_block, consume_blanks) built on it.                               *)
(*                                                                         *)
(* A byte is a one-character string; "0xFF" stands for a byte that is not  *)
(* valid UTF-8 and "IOERR" is not a byte but an event of the source: the   *)
(* read that reaches it fails with an I/O error (once). "IOFAIL" is the    *)
(* same for a source that has broken for good: every read that reaches it  *)
(* fails, and the source never gets past it.                               *)
(***************************************************************************)
EXTENDS Integers, Sequences, FiniteSets, TLC

\* ------------------------------------------------------------------ bounds
MaxLines == 3
MaxEof == 2
MaxDelimLines == 2
MaxText == 5
MaxBuilderLines == 2
MaxDriverLines == 3
MaxTermLines == 2
MaxTermText == 3

\* ------------------------------------------------------- values and results
None == [some |-> FALSE]
Some(v) == [some |-> TRUE, val |-> v]

Ok(v) == [ok |-> TRUE, val |-> v]
Err(e) == [ok |-> FALSE, err |-> e]

\* enum DataRecord
Fields(fs) == [kind |-> "Fields", fields |-> fs]
Comment(text) == [kind |-> "Comment", text |-> text]
Blank == [kind |-> "Blank"]
EOF == [kind |-> "EOF"]

\* enum ReaderError, plus the error of T::from_str
ReaderErrorIo == "Io"
ReaderErrorFromUTF8 == "FromUTF8"
FromStrErr == "ParseIntError"
Panic == "panic"

\* ------------------------------------------------------------ str helpers
\* char::is_whitespace on the bytes of the alphabet
IsWhitespace(b) == b \in {" ", "\t", "\n", "\r"}

Min(S) == CHOOSE x \in S : \A y \in S : x <= y
Max(S) == CHOOSE x \in S : \A y \in S : x >= y

\* str::trim
trim(s) ==
    LET keep == {i \in 1..Len(s) : ~IsWhitespace(s[i])}
    IN  IF keep = {} THEN <<>> ELSE SubSeq(s, Min(keep), Max(keep))

\* A search that finds the last occurrence
memchr_last(needle, haystack) ==
    LET hits == {i \in 1..Len(haystack) : haystack[i] = needle}
    IN  IF hits = {} THEN None ELSE Some(Max(hits) - 1)

\* memchr::memchr: the 0-based index of the first occurrence, or None
memchr(needle, haystack) ==
    LET hits == {i \in 1..Len(haystack) : haystack[i] = needle}
    IN  IF hits = {} THEN None ELSE Some(Min(hits) - 1)

\* String::from_utf8 (Ok/Err only; the text is the bytes themselves)
from_utf8(bytes) == \A i \in 1..Len(bytes) : bytes[i] # "0xFF"

\* ---------------------------------------------------------------- tokenizer
\* The two arms of next_field, given the trimmed record and memchr's answer
\* A next_field that does not trim the field it cuts off
next_field_at_untrimmed(rec, found) ==
    IF found.some
    THEN <<SubSeq(rec, 1, found.val), SubSeq(rec, found.val + 2, Len(rec))>>
    ELSE <<rec, <<>>>>

next_field_at(rec, found) ==
    IF found.some
    THEN <<trim(SubSeq(rec, 1, found.val)), SubSeq(rec, found.val + 2, Len(rec))>>
    ELSE <<rec, <<>>>>

next_field_trimmed(delim, rec) == next_field_at(rec, memchr(delim, rec))

next_field(delim, record) == next_field_trimmed(delim, trim(record))

\* An enum_fields that keeps the text as it is given
enum_fields_untrimmed(delim, record) == [delim |-> delim, record |-> record]

enum_fields(delim, record) == [delim |-> delim, record |-> trim(record)]

\* Iterator::next of EnumFields: the item and the iterator afterwards
EnumFields_yield(it, nf) == [item |-> Some(nf[1]), it |-> [it EXCEPT !.record = nf[2]]]

EnumFields_next(it) ==
    IF Len(it.record) = 0
    THEN [item |-> None, it |-> it]
    ELSE EnumFields_yield(it, next_field(it.delim, it.record))

\* Iterator::collect over EnumFields
RECURSIVE collect_from(_)
collect(it) == collect_from(EnumFields_next(it))

collect_from(n) == IF n.item.some THEN <<n.item.val>> \o collect(n.it) ELSE <<>>

\* <i64 as FromStr>::from_str on the alphabet (no sign character in it)
Digits == <<"0", "1", "2", "3", "4", "5", "6", "7", "8", "9">>
DigitValue(c) == (CHOOSE i \in 1..Len(Digits) : Digits[i] = c) - 1

RECURSIVE Decimal(_)
Decimal(f) ==
    IF Len(f) = 0 THEN 0
    ELSE 10 * Decimal(SubSeq(f, 1, Len(f) - 1)) + DigitValue(f[Len(f)])

from_str(f) ==
    IF Len(f) > 0 /\ \A i \in 1..Len(f) : \E d \in 1..Len(Digits) : Digits[d] = f[i]
    THEN Ok(Decimal(f))
    ELSE Err(FromStrErr)

\* A collect that puts 0 where a field does not parse
collect_results_default(results) ==
    Ok([i \in 1..Len(results) |-> IF results[i].ok THEN results[i].val ELSE 0])

\* fields.iter().map(T::from_str).collect::<Result<Vec<T>, _>>(): the first
\* error, or every value
collect_results(results) ==
    IF \A i \in 1..Len(results) : results[i].ok
    THEN Ok([i \in 1..Len(results) |-> results[i].val])
    ELSE results[Min({i \in 1..Len(results) : ~results[i].ok})]

collect_row(fields) == collect_results([i \in 1..Len(fields) |-> from_str(fields[i])])

\* ------------------------------------------------------------------- state
VARIABLES
    stream,            \* the bytes (and I/O failures) of the source, fixed
    pos,               \* how many elements of stream the source has handed out
    record_delimiter,
    field_delimiter,
    buffer,            \* DataRecordReader::buffer
    peek_buf,          \* DataRecordReader::peek_buf
    op,                \* the last public method called
    ret,               \* what it returned
    nreads,            \* how many read_until calls it made
    ntaken,            \* how many records next_record handed out during it
    delivered,         \* every record next_record has handed out so far
    args,              \* the arguments of the last call
    iter,              \* the EnumFields iterator a caller holds, if any
    yielded,           \* the fields iter has yielded so far
    pc,                \* where a caller running a loop stands
    accum              \* what that loop has accumulated

vars == <<stream, pos, record_delimiter, field_delimiter, buffer, peek_buf,
          op, ret, nreads, ntaken, delivered, args, iter, yielded, pc, accum>>

\* The reader as a value (&mut self), with the per-call trace: the number of
\* read_until calls and the records next_record returned.
Self ==
    [pos |-> pos, record_delimiter |-> record_delimiter,
     field_delimiter |-> field_delimiter, buffer |-> buffer,
     peek_buf |-> peek_buf, reads |-> 0, log |-> <<>>]

\* ------------------------------------------------------------ record reader
\* BufRead::read_until(delim, &mut buf): appends through the delimiter or to
\* the end of the source; a failing fill_buf leaves the bytes read so far in
\* buf and returns the error.
read_until_to(self, end, failed) ==
    [self |-> [self EXCEPT
                 !.pos = end,
                 !.buffer = self.buffer \o
                     SubSeq(stream, self.pos + 1, IF failed THEN end - 1 ELSE end),
                 !.reads = self.reads + 1],
     ret |-> IF failed THEN Err(ReaderErrorIo)
             ELSE Ok(end - self.pos)]

\* read_until on a source that has broken for good at stream[at]: the bytes
\* before it go to buf, the error is returned, and the source stays there
read_until_fails(self, at) ==
    [self |-> [self EXCEPT
                 !.pos = at - 1,
                 !.buffer = self.buffer \o SubSeq(stream, self.pos + 1, at - 1),
                 !.reads = self.reads + 1],
     ret |-> Err(ReaderErrorIo)]

read_until_stops(self, stops) ==
    IF stops = {}
    THEN read_until_to(self, Len(stream), FALSE)
    ELSE IF stream[Min(stops)] = "IOFAIL"
    THEN read_until_fails(self, Min(stops))
    ELSE read_until_to(self, Min(stops), stream[Min(stops)] = "IOERR")

read_until(self) ==
    read_until_stops(self, {i \in (self.pos + 1)..Len(stream) :
                               \/ stream[i] = self.record_delimiter
                               \/ stream[i] \in {"IOERR", "IOFAIL"}})

\* Fields or Blank, from the collected fields
record_of_fields(self, fields) ==
    [self |-> [self EXCEPT !.buffer = <<>>],
     ret |-> IF Len(fields) = 0 THEN Ok(Blank) ELSE Ok(Fields(fields))]

\* A classification that trims the text of a comment
classify_buffer_trimmed(self) ==
    IF self.buffer[1] = "#"
    THEN IF from_utf8(self.buffer)
         THEN [self |-> [self EXCEPT !.buffer = <<>>], ret |-> Ok(Comment(trim(self.buffer)))]
         ELSE [self |-> self, ret |-> Err(ReaderErrorFromUTF8)]
    ELSE IF from_utf8(self.buffer)
         THEN record_of_fields(self, collect(enum_fields(self.field_delimiter, self.buffer)))
         ELSE [self |-> self, ret |-> Err(ReaderErrorFromUTF8)]

\* The classification of the line in self.buffer (next_record, the else
\* branch of `result == 0`)
classify_buffer(self) ==
    IF self.buffer[1] = "#"
    THEN IF from_utf8(self.buffer)
         THEN [self |-> [self EXCEPT !.buffer = <<>>], ret |-> Ok(Comment(self.buffer))]
         ELSE [self |-> self, ret |-> Err(ReaderErrorFromUTF8)]
    ELSE IF from_utf8(self.buffer)
         THEN record_of_fields(self, collect(enum_fields(self.field_delimiter, self.buffer)))
         ELSE [self |-> self, ret |-> Err(ReaderErrorFromUTF8)]

\* The trace of the call: a record next_record returns is appended to log
Logged(r) ==
    IF r.ret.ok THEN [r EXCEPT !.self.log = Append(r.self.log, r.ret.val)] ELSE r

\* next_record after read_until has returned rd
next_record_read(rd) ==
    IF ~rd.ret.ok THEN rd
    ELSE IF rd.ret.val = 0 THEN [self |-> rd.self, ret |-> Ok(EOF)]
    ELSE classify_buffer(rd.self)

\* A next_record that returns the peeked record and leaves it in the slot
next_record_keeps_slot(self) ==
    IF self.peek_buf.some
    THEN Logged([self |-> self, ret |-> Ok(self.peek_buf.val)])
    ELSE Logged(next_record_read(read_until(self)))

next_record(self) ==
    IF self.peek_buf.some
    THEN Logged([self |-> [self EXCEPT !.peek_buf = None], ret |-> Ok(self.peek_buf.val)])
    ELSE Logged(next_record_read(read_until(self)))

\* A peek that returns the record it read and does not keep it
peek_record_fill_forgets(self, nx) ==
    IF ~nx.ret.ok THEN nx
    ELSE [self |-> [nx.self EXCEPT !.log = self.log], ret |-> nx.ret]

\* peek_record after its next_record has returned nx: the record goes to the
\* slot, not to a caller, so the trace keeps the log it had
peek_record_fill(self, nx) ==
    IF ~nx.ret.ok THEN nx
    ELSE [self |-> [nx.self EXCEPT !.peek_buf = Some(nx.ret.val), !.log = self.log],
          ret |-> nx.ret]

peek_record(self) ==
    IF ~self.peek_buf.some
    THEN peek_record_fill(self, next_record(self))
    ELSE [self |-> self, ret |-> Ok(self.peek_buf.val)]

\* ------------------------------------------------------------- block reader
\* One pass through the body of a loop ends in Break(self, result), which leaves
\* the function with result (break, return, panic), or in Continue(self, acc).
Break(self, result) == [self |-> self, done |-> TRUE, ret |-> result]
Continue(self, acc) == [self |-> self, done |-> FALSE, acc |-> acc]

\* A push that starts a new block every time
Push_resets(block, vec) == Some(<<vec>>)

\* block.get_or_insert_with(|| Vec::new()).push(vec)
Push(block, vec) == IF block.some THEN Some(Append(block.val, vec)) ELSE Some(<<vec>>)

\* next_block: the match on the parsed fields
next_block_row(self, block, vec) ==
    IF vec.ok THEN Continue(self, Push(block, vec.val)) ELSE Break(self, vec)

\* A next_block that leaves a record whose fields do not parse in the slot
next_block_taken_puts_back(nx, block) ==
    IF ~nx.ret.ok THEN Break(nx.self, nx.ret)
    ELSE IF nx.ret.val.kind = "Comment" THEN Continue(nx.self, block)
    ELSE IF nx.ret.val.kind = "Fields"
    THEN IF collect_row(nx.ret.val.fields).ok
         THEN next_block_row(nx.self, block, collect_row(nx.ret.val.fields))
         ELSE Break([nx.self EXCEPT !.peek_buf = Some(nx.ret.val)],
                    collect_row(nx.ret.val.fields))
    ELSE Break(nx.self, Err(Panic))

\* next_block: the match on the record next_record returned
next_block_taken(nx, block) ==
    IF ~nx.ret.ok THEN Break(nx.self, nx.ret)
    ELSE IF nx.ret.val.kind = "Comment" THEN Continue(nx.self, block)
    ELSE IF nx.ret.val.kind = "Fields"
    THEN next_block_row(nx.self, block, collect_row(nx.ret.val.fields))
    ELSE Break(nx.self, Err(Panic))

\* A next_block that tries again when its peek fails
next_block_peeked_retries(pk, block) ==
    IF ~pk.ret.ok THEN Continue(pk.self, block)
    ELSE IF pk.ret.val.kind \in {"EOF", "Blank"} THEN Break(pk.self, Ok(block))
    ELSE next_block_taken(next_record(pk.self), block)

\* A next_block that ends a block at EOF only
next_block_peeked_eof_only(pk, block) ==
    IF ~pk.ret.ok THEN Break(pk.self, pk.ret)
    ELSE IF pk.ret.val.kind = "EOF" THEN Break(pk.self, Ok(block))
    ELSE next_block_taken(next_record(pk.self), block)

\* A next_block that consumes the record that ends the block
next_block_peeked_consumes(pk, block) ==
    IF ~pk.ret.ok THEN Break(pk.self, pk.ret)
    ELSE IF pk.ret.val.kind \in {"EOF", "Blank"}
    THEN Break(next_record(pk.self).self, Ok(block))
    ELSE next_block_taken(next_record(pk.self), block)

\* next_block: the match on the peeked record
next_block_peeked(pk, block) ==
    IF ~pk.ret.ok THEN Break(pk.self, pk.ret)
    ELSE IF pk.ret.val.kind \in {"EOF", "Blank"} THEN Break(pk.self, Ok(block))
    ELSE next_block_taken(next_record(pk.self), block)

RECURSIVE next_block_loop(_)
next_block_iter(self, block) == next_block_loop(next_block_peeked(peek_record(self), block))

next_block_loop(it) ==
    IF it.done THEN [self |-> it.self, ret |-> it.ret]
    ELSE next_block_iter(it.self, it.acc)

next_block(self) == next_block_iter(self, None)

\* consume_blanks: next_record().unwrap()
consume_blanks_taken(nx, count) ==
    IF ~nx.ret.ok THEN Break(nx.self, Err(Panic)) ELSE Continue(nx.self, count)

\* A consume_blanks that stops at a comment
consume_blanks_peeked_blank_only(pk, count) ==
    IF ~pk.ret.ok THEN Break(pk.self, pk.ret)
    ELSE IF pk.ret.val.kind = "Blank"
    THEN consume_blanks_taken(next_record(pk.self), count + 1)
    ELSE Break(pk.self, Ok(count))

\* consume_blanks: the match on the peeked record
consume_blanks_peeked(pk, count) ==
    IF ~pk.ret.ok THEN Break(pk.self, pk.ret)
    ELSE IF pk.ret.val.kind \in {"Blank", "Comment"}
    THEN consume_blanks_taken(next_record(pk.self), count + 1)
    ELSE Break(pk.self, Ok(count))

RECURSIVE consume_blanks_loop(_)
consume_blanks_iter(self, count) ==
    consume_blanks_loop(consume_blanks_peeked(peek_record(self), count))

consume_blanks_loop(it) ==
    IF it.done THEN [self |-> it.self, ret |-> it.ret]
    ELSE consume_blanks_iter(it.self, it.acc)

consume_blanks(self) == consume_blanks_iter(self, 0)

\* A set_field_delimiter that also throws away the peeked record
set_field_delimiter_drops_peek(self, delim) ==
    [self |-> [self EXCEPT !.field_delimiter = delim, !.peek_buf = None], ret |-> Ok(<<>>)]

set_field_delimiter(self, delim) ==
    [self |-> [self EXCEPT !.field_delimiter = delim], ret |-> Ok(<<>>)]

\* ------------------------------------------------------------------ inputs
\* The lines a source is made of (without their record delimiter).
LineShapes ==
    { <<>>,                          \* empty line
      <<" ">>,                       \* whitespace only
      <<" ", "#">>,                  \* '#', but not as the first byte
      <<"1">>,                       \* one field
      <<"2", ",", " ", "1">>,        \* two fields, one padded
      <<"#", ",">>,                  \* comment holding the field delimiter
      <<"1", ",", "x">>,             \* second field does not parse
      <<",">>,                       \* delimiter alone
      <<"0xFF">>,                    \* not UTF-8
      <<"1", "IOERR", "2">> }        \* the source fails inside the line

FieldDelimiters == {",", " "}

RECURSIVE Flatten(_)
Flatten(ls) ==
    IF Len(ls) = 0 THEN <<>> ELSE Head(ls) \o <<"\n">> \o Flatten(Tail(ls))

\* Up to MaxLines lines, the last one with or without its line feed
Sources ==
    LET full == UNION {{Flatten(ls) : ls \in [1..n -> LineShapes]} : n \in 0..MaxLines}
    IN  full \cup {SubSeq(s, 1, Len(s) - 1) : s \in full \ {<<>>}}

\* ------------------------------------------------------------------ actions
\* The fields of a reader that has just been made, and a caller that has
\* called nothing yet
New ==
    /\ pos = 0
    /\ buffer = <<>>
    /\ peek_buf = None
    /\ op = "new"
    /\ ret = Ok(<<>>)
    /\ nreads = 0
    /\ ntaken = 0
    /\ delivered = <<>>
    /\ iter = None
    /\ yielded = <<>>

\* A caller that makes its calls from straight-line code
NoLoop ==
    /\ pc = "caller"
    /\ accum = None

\* DataRecordReader::new, or DataRecordReaderBuilder::build with the line
\* feed as record delimiter and a field delimiter of the caller's choice
\* (and DataBlockReader::new around it)
Init ==
    /\ stream \in Sources
    /\ record_delimiter = "\n"
    /\ field_delimiter \in FieldDelimiters
    /\ args = <<>>
    /\ New
    /\ NoLoop

Commit(name, r) ==
    /\ pos' = r.self.pos
    /\ field_delimiter' = r.self.field_delimiter
    /\ buffer' = r.self.buffer
    /\ peek_buf' = r.self.peek_buf
    /\ op' = name
    /\ ret' = r.ret
    /\ nreads' = r.self.reads
    /\ ntaken' = Len(r.self.log)
    /\ delivered' = delivered \o r.self.log
    /\ UNCHANGED <<stream, record_delimiter, iter, yielded>>

NumEof == Cardinality({i \in 1..Len(delivered) : delivered[i] = EOF})

\* A call made from straight-line code of the caller
Call(name, r, a) ==
    /\ pc = "caller"
    /\ Commit(name, r)
    /\ args' = a
    /\ UNCHANGED <<pc, accum>>

PeekRecord == Call("peek_record", peek_record(Self), <<>>)

NextRecord ==
    /\ NumEof < MaxEof
    /\ Call("next_record", next_record(Self), <<>>)

NextBlock == Call("next_block", next_block(Self), <<>>)

ConsumeBlanks == Call("consume_blanks", consume_blanks(Self), <<>>)

SetFieldDelimiter ==
    \E delim \in FieldDelimiters :
        Call("set_field_delimiter", set_field_delimiter(Self, delim), <<delim>>)

\* The calls of a caller that keeps the field delimiter it started with
Next ==
    \/ PeekRecord
    \/ NextRecord
    \/ NextBlock
    \/ ConsumeBlanks

Spec == Init /\ [][Next]_vars

\* The calls of a caller that also changes the field delimiter, on sources
\* whose lines read differently with ',' and with ' '
DelimLineShapes ==
    { <<>>, <<"1">>, <<"2", ",", " ", "1">>, <<"#", ",">>, <<"0xFF">> }

DelimSources ==
    UNION {{Flatten(ls) : ls \in [1..n -> DelimLineShapes]} : n \in 0..MaxDelimLines}

InitDelim ==
    /\ stream \in DelimSources
    /\ record_delimiter = "\n"
    /\ field_delimiter \in FieldDelimiters
    /\ args = <<>>
    /\ New
    /\ NoLoop

NextDelim ==
    \/ Next
    \/ SetFieldDelimiter

SpecDelim == InitDelim /\ [][NextDelim]_vars

\* ============================================================== properties
\* What the properties speak of: the physical lines of the source and the
\* records the record reader would hand out from a given state.

ErrorFree == \A i \in 1..Len(stream) : stream[i] \notin {"IOERR", "0xFF"}

\* The bytes of s without the failures of the source
RECURSIVE Bytes(_)
Bytes(s) ==
    IF Len(s) = 0 THEN <<>>
    ELSE IF Head(s) = "IOERR" THEN Bytes(Tail(s))
    ELSE <<Head(s)>> \o Bytes(Tail(s))

\* The physical lines of s, each with its record delimiter (the last one
\* may have none)
RECURSIVE Lines(_)
Lines(s) ==
    IF Len(s) = 0 THEN <<>>
    ELSE LET ends == {i \in 1..Len(s) : s[i] = record_delimiter}
             e == IF ends = {} THEN Len(s) ELSE Min(ends)
         IN  <<SubSeq(s, 1, e)>> \o Lines(SubSeq(s, e + 1, Len(s)))

\* The physical line whose last byte is stream[p]
LineEndingAt(p) ==
    LET before == {i \in 1..(p - 1) : stream[i] = record_delimiter}
    IN  Bytes(SubSeq(stream, IF before = {} THEN 1 ELSE Max(before) + 1, p))

AllWhitespace(line) == \A i \in 1..Len(line) : IsWhitespace(line[i])

\* The record a physical line stands for
RecordOf(line, delim) ==
    IF line[1] = "#" THEN Comment(line)
    ELSE IF AllWhitespace(line) THEN Blank
    ELSE Fields(collect(enum_fields(delim, line)))

ExpectedRecords ==
    LET ls == Lines(stream) IN [i \in 1..Len(ls) |-> RecordOf(ls[i], field_delimiter)]

IsRecord(r) == r.kind \in {"Fields", "Comment", "Blank", "EOF"}

\* The last `ntaken` records of delivered: those the last call took
TakenByLastCall == SubSeq(delivered, Len(delivered) - ntaken + 1, Len(delivered))

\* ---------------------------------------------------------------------- C1
\* C1: the peek slot is empty or holds exactly one record; a peek_record on
\* a filled slot returns the record of the slot without reading the source
\* and changes nothing, a peek_record on an empty slot reads the source
\* exactly once and, when it succeeds, leaves the record it returns in the
\* slot; so of two successive peeks the second returns the value of the
\* first and reads nothing.
C1_SlotHoldsOne == peek_buf = None \/ (peek_buf.some /\ IsRecord(peek_buf.val))

C1_PeekStep ==
    op' = "peek_record" =>
        /\ peek_buf.some =>
              /\ ret' = Ok(peek_buf.val)
              /\ nreads' = 0
              /\ UNCHANGED <<pos, buffer, peek_buf, delivered>>
        /\ ~peek_buf.some => nreads' = 1
        /\ ret'.ok => peek_buf' = Some(ret'.val)
        /\ (op = "peek_record" /\ ret.ok) =>
              /\ ret' = ret
              /\ nreads' = 0
              /\ UNCHANGED <<pos, buffer, peek_buf, delivered>>

C1_PeekIdempotent == []C1_SlotHoldsOne /\ [][C1_PeekStep]_vars

\* A second peek has returned the cached Fields record without a read
C1_Witness ==
    /\ op = "peek_record"
    /\ nreads = 0
    /\ ret.ok
    /\ ret.val.kind = "Fields"
    /\ peek_buf = Some(ret.val)

\* ---------------------------------------------------------------------- C2
\* C2: on a source without I/O failures and without undecodable bytes, read
\* with one field delimiter, the records next_record has handed out are the
\* records of the physical lines, in order and one each, followed by EOF
\* only; the peek slot holds the record that comes next; and the source has
\* handed out exactly the lines of the records delivered or held in the slot.
C2_InOrderOnce ==
    ErrorFree =>
        LET exp == ExpectedRecords
            n == Len(exp)
            d == Len(delivered)
            held == IF peek_buf.some /\ peek_buf.val # EOF THEN 1 ELSE 0
        IN  /\ \A i \in 1..d : delivered[i] = IF i <= n THEN exp[i] ELSE EOF
            /\ peek_buf.some => peek_buf.val = IF d < n THEN exp[d + 1] ELSE EOF
            /\ Len(Lines(SubSeq(stream, 1, pos))) = (IF d < n THEN d ELSE n) + held
            /\ pos = 0 \/ pos = Len(stream) \/ stream[pos] = record_delimiter
            /\ buffer = <<>>

\* Every line of a three-line source whose last line has no line feed has
\* been delivered, then EOF twice, the last one out of the peek slot
C2_Witness ==
    /\ ErrorFree
    /\ Len(stream) > 0
    /\ stream[Len(stream)] # record_delimiter
    /\ Len(delivered) = 5
    /\ delivered[3].kind = "Fields"
    /\ delivered[4] = EOF
    /\ delivered[5] = EOF
    /\ op = "next_record"
    /\ nreads = 0

\* ------------------------------------------------------- the block reader
\* The results of the next_record calls a caller would get from self, up to
\* and including the first EOF or error
RECURSIVE RecordsFrom(_)
RecordsAfter(nx) ==
    IF ~nx.ret.ok \/ nx.ret.val = EOF THEN <<nx.ret>>
    ELSE <<nx.ret>> \o RecordsFrom(nx.self)

RecordsFrom(self) == RecordsAfter(next_record(self))

\* The index in recs of the first result that is an error or a record of
\* another kind than `kinds`
FirstNotOf(recs, kinds) ==
    Min({i \in 1..Len(recs) : ~recs[i].ok \/ recs[i].val.kind \notin kinds})

Values(recs, n) == [i \in 1..n |-> recs[i].val]

DigitSet == {Digits[i] : i \in 1..Len(Digits)}
Parsable(f) == Len(f) > 0 /\ \A i \in 1..Len(f) : f[i] \in DigitSet
RowParses(rec) == \A j \in 1..Len(rec.fields) : Parsable(rec.fields[j])
IsFields(rec) == rec.kind = "Fields"

\* The rows of the Fields records among r
RowsOf(r) ==
    LET fs == SelectSeq(r, IsFields)
    IN  [i \in 1..Len(fs) |-> [j \in 1..Len(fs[i].fields) |-> Decimal(fs[i].fields[j])]]

\* ---------------------------------------------------------------------- C3
\* C3: next_block succeeds exactly if the records from the current position
\* reach a Blank or EOF record before any read error and every field of the
\* Fields records before it parses; it then returns the rows of those Fields
\* records in order (None if there is none), has consumed exactly the
\* Comment and Fields records before the Blank or EOF record, and leaves
\* that record in the peek slot as the next record of the record reader.
C3_Step ==
    op' = "next_block" =>
        LET recs == RecordsFrom(Self)
            k == FirstNotOf(recs, {"Fields", "Comment"})
            body == Values(recs, k - 1)
            rows == RowsOf(body)
        IN  /\ ret'.ok <=>
                  /\ recs[k].ok
                  /\ \A i \in 1..(k - 1) : IsFields(body[i]) => RowParses(body[i])
            /\ ret'.ok =>
                  /\ ret'.val = IF Len(rows) = 0 THEN None ELSE Some(rows)
                  /\ recs[k].val.kind \in {"Blank", "EOF"}
                  /\ ntaken' = k - 1
                  /\ delivered' = delivered \o body
                  /\ peek_buf' = Some(recs[k].val)
                  /\ next_record(Self').ret = recs[k]

C3_BlockIsRowsUpToBlank == [][C3_Step]_vars

\* next_block has returned two different rows, in the order of their lines,
\* and the blank line that ended the block is in the peek slot
C3_Witness ==
    /\ op = "next_block"
    /\ ret = Ok(Some(<< <<1>>, <<2, 1>> >>))
    /\ ntaken = 2
    /\ peek_buf = Some(Blank)

\* ---------------------------------------------------------------------- C4
\* C4: consume_blanks consumes exactly the Blank and Comment records that
\* come before the first record of another kind, returns their number, and
\* leaves that Fields or EOF record in the peek slot as the next record; a
\* read error met on the way is returned.
C4_Step ==
    op' = "consume_blanks" =>
        LET recs == RecordsFrom(Self)
            k == FirstNotOf(recs, {"Blank", "Comment"})
        IN  /\ ret'.ok <=> recs[k].ok
            /\ ntaken' = k - 1
            /\ delivered' = delivered \o Values(recs, k - 1)
            /\ ret'.ok =>
                  /\ ret'.val = k - 1
                  /\ recs[k].val.kind \in {"Fields", "EOF"}
                  /\ peek_buf' = Some(recs[k].val)
                  /\ next_record(Self').ret = recs[k]
            /\ ~ret'.ok => ret' = recs[k]

C5_CountsBlankLines ==
    (op = "consume_blanks" /\ ret.ok) =>
        ret.val = Cardinality({i \in 1..ntaken : TakenByLastCall[i].kind = "Blank"})

\* ---------------------------------------------------------------------- C6
\* C6: next_block returns the parse error, and so no rows, exactly if a
\* Fields record it consumed has a field that does not parse; that record is
\* the last one it consumed.
C6_ParseErrorNoRows ==
    op = "next_block" =>
        LET t == TakenByLastCall
            bad == {i \in 1..ntaken : IsFields(t[i]) /\ ~RowParses(t[i])}
        IN  /\ bad # {} => ret = Err(FromStrErr)
            /\ ret = Err(FromStrErr) => bad = {ntaken}

\* next_block has parsed one row and then failed on a field of the next
C6_Witness ==
    /\ op = "next_block"
    /\ ret = Err(FromStrErr)
    /\ ntaken >= 2
    /\ IsFields(TakenByLastCall[1])
    /\ RowParses(TakenByLastCall[1])

\* ---------------------------------------------------------------------- C7
\* C7: after next_record or peek_record has failed, the line buffer of the
\* reader is empty.
C7_BufferEmptyAfterError ==
    (op \in {"next_record", "peek_record"} /\ ~ret.ok) => buffer = <<>>

\* ---------------------------------------------------------------------- C8
\* C8: after a peek_record whose read failed, the next peek_record or
\* next_record returns the same error.
C8_Step ==
    (op = "peek_record" /\ ~ret.ok /\ op' \in {"peek_record", "next_record"})
        => ret' = ret

C8_ErrorReturnedAgain == [][C8_Step]_vars

\* ---------------------------------------------------------------------- C9
\* C9: a record that next_record makes from a freshly read line is Comment
\* exactly if the first byte of the line is '#', and its text is then the
\* whole line with its record delimiter; otherwise it is Blank exactly if
\* the line is empty or whitespace only; otherwise it is Fields with the one
\* or more trimmed fields that the field delimiter splits the line into.
\* The line ",\n" gives Fields([""]).
C9_FreshRead ==
    /\ op' \in {"next_record", "peek_record"}
    /\ ~peek_buf.some
    /\ ret'.ok
    /\ ret'.val # EOF

C9_ClassifiedAs(rec, line) ==
    /\ rec.kind \in {"Comment", "Blank", "Fields"}
    /\ rec.kind = "Comment" <=> line[1] = "#"
    /\ rec.kind = "Comment" => rec.text = line
    /\ rec.kind = "Blank" <=> (line[1] # "#" /\ AllWhitespace(line))
    /\ rec.kind = "Fields" =>
          /\ Len(rec.fields) >= 1
          /\ rec.fields = collect(enum_fields(field_delimiter, line))
          /\ \A i \in 1..Len(rec.fields) : trim(rec.fields[i]) = rec.fields[i]
    /\ (line = <<",", "\n">> /\ field_delimiter = ",") => rec = Fields(<< <<>> >>)

C9_Classification == [][C9_FreshRead => C9_ClassifiedAs(ret'.val, LineEndingAt(pos'))]_vars

\* next_record has read the line ",\n" and returned Fields([""])
C9_Witness ==
    /\ op = "next_record"
    /\ nreads = 1
    /\ ret = Ok(Fields(<< <<>> >>))
    /\ LineEndingAt(pos) = <<",", "\n">>

\* --------------------------------------------------------------------- C10
\* C10: once the source is exhausted and no record but EOF is held,
\* next_block returns Ok(None); and a next_block that follows a next_block
\* that returned Ok(None) returns Ok(None) too, reads nothing and leaves the
\* reader as it was.
C10_Step ==
    op' = "next_block" =>
        /\ (pos = Len(stream) /\ (peek_buf = None \/ peek_buf = Some(EOF))) =>
              /\ ret' = Ok(None)
              /\ peek_buf' = Some(EOF)
              /\ UNCHANGED <<pos, buffer, delivered>>
        /\ (op = "next_block" /\ ret = Ok(None)) =>
              /\ ret' = Ok(None)
              /\ nreads' = 0
              /\ UNCHANGED <<pos, buffer, peek_buf, delivered>>

C10_NoneIsIdempotent == [][C10_Step]_vars

\* After a block was delivered, next_block has returned Ok(None) at the end
\* of the source, and then Ok(None) again without a read
C10_Witness ==
    /\ op = "next_block"
    /\ ret = Ok(None)
    /\ nreads = 0
    /\ pos = Len(stream)
    /\ peek_buf = Some(EOF)
    /\ \E i \in 1..Len(delivered) : IsFields(delivered[i])

\* --------------------------------------------------------------------- C11
\* C11: set_field_delimiter sets the field delimiter to its argument, reads
\* nothing and leaves the source position, the line buffer, the peek slot
\* and the delivered records as they were, and no other call changes the
\* delimiter; a record held in the peek slot is what the next peek_record or
\* next_record returns, unchanged, whatever the delimiter is by then; and on
\* a source without failures every record read from the source is the
\* record of its line under the delimiter in force at the read.
C11_NewFrom == Len(delivered) + (IF peek_buf.some THEN 2 ELSE 1)

C11_Step ==
    /\ op' = "set_field_delimiter" =>
          /\ field_delimiter' = args'[1]
          /\ nreads' = 0
          /\ ntaken' = 0
          /\ ret' = Ok(<<>>)
          /\ UNCHANGED <<stream, pos, record_delimiter, buffer, peek_buf, delivered>>
    /\ op' # "set_field_delimiter" => field_delimiter' = field_delimiter
    /\ (peek_buf.some /\ op' \in {"peek_record", "next_record"}) =>
          /\ ret' = Ok(peek_buf.val)
          /\ nreads' = 0
    /\ (peek_buf.some /\ Len(delivered') > Len(delivered)) =>
          delivered'[Len(delivered) + 1] = peek_buf.val
    /\ ErrorFree =>
          LET ls == Lines(stream)
              rec(i) == IF i <= Len(ls) THEN RecordOf(ls[i], field_delimiter) ELSE EOF
          IN  /\ \A i \in C11_NewFrom..Len(delivered') : delivered'[i] = rec(i)
              /\ (peek_buf'.some /\ Len(delivered') + 1 >= C11_NewFrom) =>
                    peek_buf'.val = rec(Len(delivered') + 1)

C11_DelimiterAppliesToLaterReads == [][C11_Step]_vars

\* The delimiter has been set to ' ' while the peek slot holds the record of
\* "2, 1" split by ','
C11_Witness ==
    /\ op = "set_field_delimiter"
    /\ args = <<" ">>
    /\ field_delimiter = " "
    /\ peek_buf = Some(Fields(<< <<"2">>, <<"1">> >>))
    /\ pos < Len(stream)

\* ----------------------------------------------------------- the tokenizer
\* A caller of the two tokenizer functions: it holds a delimiter and a text
\* (args), calls next_field on them, or calls enum_fields on them and then
\* next on the iterator it got.
TextBytes == {",", " ", "\n", "1", "2"}

TokDelimiters == {",", " ", "\n"}

\* "10, 20, 30" and "10 20  30   40 "
ExampleTexts ==
    { <<"1", "0", ",", " ", "2", "0", ",", " ", "3", "0">>,
      <<"1", "0", " ", "2", "0", " ", " ", "3", "0", " ", " ", " ", "4", "0", " ">> }

Texts == UNION {[1..n -> TextBytes] : n \in 0..MaxText} \cup ExampleTexts

InitTok ==
    /\ args \in {<<d, t>> : d \in TokDelimiters, t \in Texts}
    /\ stream = <<>>
    /\ record_delimiter = "\n"
    /\ field_delimiter = ","
    /\ New
    /\ NoLoop

TokFrame ==
    UNCHANGED <<stream, pos, record_delimiter, field_delimiter, buffer, peek_buf,
                nreads, ntaken, delivered, args, pc, accum>>

NextField ==
    /\ Len(args) = 2
    /\ op = "new"
    /\ op' = "next_field"
    /\ ret' = next_field(args[1], args[2])
    /\ UNCHANGED <<iter, yielded>>
    /\ TokFrame

EnumFields ==
    /\ Len(args) = 2
    /\ op = "new"
    /\ op' = "enum_fields"
    /\ iter' = Some(enum_fields(args[1], args[2]))
    /\ UNCHANGED <<ret, yielded>>
    /\ TokFrame

\* Iterator::next on the iterator, after n == EnumFields_next(iter.val)
IterNextTo(n) ==
    /\ op' = "next"
    /\ ret' = n.item
    /\ iter' = Some(n.it)
    /\ yielded' = IF n.item.some THEN Append(yielded, n.item.val) ELSE yielded
    /\ TokFrame

IterNext ==
    /\ iter.some
    /\ IterNextTo(EnumFields_next(iter.val))

NextTok ==
    \/ NextField
    \/ EnumFields
    \/ IterNext

SpecTok == InitTok /\ [][NextTok]_vars

\* The iteration over enum_fields(args) has ended: next has returned None
TokDone == op = "next" /\ ret = None

\* The pieces of t between the occurrences of d
RECURSIVE SplitBy(_, _)
SplitBy(d, t) ==
    LET hits == {i \in 1..Len(t) : t[i] = d}
    IN  IF hits = {} THEN <<t>>
        ELSE <<SubSeq(t, 1, Min(hits) - 1)>> \o SplitBy(d, SubSeq(t, Min(hits) + 1, Len(t)))

TrimmedPieces(d, t) == LET ps == SplitBy(d, t) IN [i \in 1..Len(ps) |-> trim(ps[i])]

NoAdjacent(d, t) == \A i \in 1..(Len(t) - 1) : ~(t[i] = d /\ t[i + 1] = d)

\* No two occurrences of d in t have nothing but whitespace between them
NoBlankBetween(d, t) ==
    \A i, j \in 1..Len(t) :
        (i < j /\ t[i] = d /\ t[j] = d) => ~AllWhitespace(SubSeq(t, i + 1, j - 1))

\* d is neither the first nor the last byte of t
NotAtEnds(d, t) == Len(t) > 0 => (t[1] # d /\ t[Len(t)] # d)

\* No occurrence of d in t has only whitespace before it or only whitespace
\* after it: d is neither leading nor trailing once whitespace is set aside
NotAtTrimmedEnds(d, t) ==
    \A i \in 1..Len(t) :
        t[i] = d => (/\ ~AllWhitespace(SubSeq(t, 1, i - 1))
                     /\ ~AllWhitespace(SubSeq(t, i + 1, Len(t))))

\* --------------------------------------------------------------------- C12
\* C12 as stated: for a text t that is not empty or whitespace only, in
\* which d is neither leading nor trailing (neither the first nor the last
\* byte of t, nor next to whitespace that is) and never occurs twice in a
\* row, the fields enum_fields(d, t) yields are the pieces of t between the
\* occurrences of d, each trimmed.
C12_SplitsBetweenDelimiters ==
    TokDone =>
        LET d == args[1]
            t == args[2]
        IN  (/\ ~AllWhitespace(t)
             /\ NotAtEnds(d, t)
             /\ NotAtTrimmedEnds(d, t)
             /\ NoAdjacent(d, t)) => yielded = TrimmedPieces(d, t)

\* C12 amended: the same, when in addition, for a delimiter that is itself
\* whitespace, no two occurrences of d have only whitespace between them.
\* "10, 20, 30" split by ',' yields "10", "20", "30".
C12_SplitsBetweenDelimitersAmended ==
    TokDone =>
        LET d == args[1]
            t == args[2]
        IN  /\ (/\ ~AllWhitespace(t)
                /\ NotAtEnds(d, t)
                /\ NotAtTrimmedEnds(d, t)
                /\ NoAdjacent(d, t)
                /\ IsWhitespace(d) => NoBlankBetween(d, t)) => yielded = TrimmedPieces(d, t)
            /\ (d = "," /\ t = <<"1", "0", ",", " ", "2", "0", ",", " ", "3", "0">>) =>
                  yielded = << <<"1", "0">>, <<"2", "0">>, <<"3", "0">> >>

\* The iteration over enum_fields(',', "10, 20, 30") has ended after three
\* fields
C12_Witness ==
    /\ TokDone
    /\ args = <<",", <<"1", "0", ",", " ", "2", "0", ",", " ", "3", "0">>>>
    /\ Len(yielded) = 3

\* --------------------------------------------------------------------- C13
\* C13: for a delimiter d that is not whitespace, a text whose trimmed form
\* starts with d yields an empty first field, and a text whose trimmed form
\* ends with d yields an empty last field.
C13_EmptyFieldAtEnds ==
    (TokDone /\ ~IsWhitespace(args[1]) /\ ~AllWhitespace(args[2])) =>
        LET d == args[1]
            t == trim(args[2])
        IN  /\ t[1] = d => (Len(yielded) > 0 /\ yielded[1] = <<>>)
            /\ t[Len(t)] = d => (Len(yielded) > 0 /\ yielded[Len(yielded)] = <<>>)

\* --------------------------------------------------------------------- C14
\* C14: for every delimiter, an empty or whitespace-only text yields no
\* field; with the space as delimiter no field yielded is empty; and
\* "10 20  30   40 " split by ' ' yields exactly "10", "20", "30", "40".
C14_BlankTextAndSpaceDelimiter ==
    op \in {"enum_fields", "next"} =>
        /\ AllWhitespace(args[2]) => yielded = <<>>
        /\ (AllWhitespace(args[2]) /\ op = "next") => ret = None
        /\ args[1] = " " => \A i \in 1..Len(yielded) : yielded[i] # <<>>
        /\ (TokDone /\ args[1] = " " /\
            args[2] = <<"1", "0", " ", "2", "0", " ", " ", "3", "0", " ", " ", " ", "4", "0", " ">>) =>
              yielded = << <<"1", "0">>, <<"2", "0">>, <<"3", "0">>, <<"4", "0">> >>

\* The iteration over enum_fields(' ', "10 20  30   40 ") has ended after
\* four fields
C14_Witness ==
    /\ TokDone
    /\ args[1] = " "
    /\ Len(args[2]) = 15
    /\ Len(yielded) = 4

\* --------------------------------------------------------------------- C15
\* C15: next_field(d, text) returns, when d occurs in the trimmed text, the
\* trimmed part of the trimmed text before the first d and the part after
\* that d as it is; otherwise the trimmed text and the empty text. The field
\* never contains d and has no whitespace at its ends.
\* next_field(',', "10, 20, 30") is ("10", " 20, 30").
C15_NextField ==
    op = "next_field" =>
        LET d == args[1]
            t == trim(args[2])
            hits == {i \in 1..Len(t) : t[i] = d}
            field == ret[1]
            rest == ret[2]
        IN  /\ hits # {} =>
                  /\ field = trim(SubSeq(t, 1, Min(hits) - 1))
                  /\ rest = SubSeq(t, Min(hits) + 1, Len(t))
            /\ hits = {} => (field = t /\ rest = <<>>)
            /\ \A i \in 1..Len(field) : field[i] # d
            /\ Len(field) > 0 => (~IsWhitespace(field[1]) /\ ~IsWhitespace(field[Len(field)]))
            /\ (d = "," /\ args[2] = <<"1", "0", ",", " ", "2", "0", ",", " ", "3", "0">>) =>
                  ret = << <<"1", "0">>, <<" ", "2", "0", ",", " ", "3", "0">> >>

\* next_field(',', "10, 20, 30") has returned
C15_Witness ==
    /\ op = "next_field"
    /\ args = <<",", <<"1", "0", ",", " ", "2", "0", ",", " ", "3", "0">>>>
    /\ ret[1] = <<"1", "0">>

\* --------------------------------------------------------------------- C17
\* C17: no call reaches a panic site: next_block never takes the arm of
\* panic!("unreachable!"), and the next_record().unwrap() of consume_blanks
\* never meets an error.
C17_NoPanic == ret # Err(Panic)

\* next_block has taken three records, each after peeking it, and stopped
\* at the end of the source
C17_Witness ==
    /\ op = "next_block"
    /\ ret.ok
    /\ ntaken = 3
    /\ nreads = 4
    /\ peek_buf = Some(EOF)

\* --------------------------------------------------------------------- C19
\* C19: when next_block has returned a field-parse error, the Fields record
\* that failed is the last record it consumed, the peek slot and the line
\* buffer are empty; the next next_block reads the source, the first record
\* it takes is the record of the line after the failing one, and the rows a
\* next_block returns are the rows of the records that very call consumed,
\* so rows gathered before a failure are never delivered.
C19_AfterParseError ==
    (op = "next_block" /\ ret = Err(FromStrErr)) =>
        /\ peek_buf = None
        /\ buffer = <<>>
        /\ ntaken >= 1
        /\ IsFields(delivered[Len(delivered)])
        /\ ~RowParses(delivered[Len(delivered)])

\* The line of the source that starts after pos
C19_NextLine ==
    LET ends == {i \in (pos + 1)..Len(stream) : stream[i] = record_delimiter}
    IN  SubSeq(stream, pos + 1, IF ends = {} THEN Len(stream) ELSE Min(ends))

C19_Step ==
    op' = "next_block" =>
        /\ ret'.ok =>
              ret'.val = IF RowsOf(TakenByLastCall') = <<>> THEN None
                         ELSE Some(RowsOf(TakenByLastCall'))
        /\ (op = "next_block" /\ ret = Err(FromStrErr)) =>
              /\ nreads' >= 1
              /\ ntaken' >= 1 =>
                    TakenByLastCall'[1] = RecordOf(C19_NextLine, field_delimiter)

C19_UsableAfterParseError == []C19_AfterParseError /\ [][C19_Step]_vars

\* next_block has parsed a row and failed on the next record, with more of
\* the source to come
C19_Witness ==
    /\ op = "next_block"
    /\ ret = Err(FromStrErr)
    /\ ntaken = 2
    /\ IsFields(delivered[Len(delivered) - 1])
    /\ RowParses(delivered[Len(delivered) - 1])
    /\ peek_buf = None
    /\ pos < Len(stream)

\* ----------------------------------------------- readers made by the builder
\* DataRecordReaderBuilder::new().record_delimiter(rd).field_delimiter(fd)
\* .build(stream): any byte is taken as a delimiter
RecordDelimiters == {"\n", ";"}

BuilderLineShapes == { <<>>, <<"1">>, <<"2", ",", "1">>, <<"#">> }

RECURSIVE FlattenWith(_, _)
FlattenWith(ls, rd) ==
    IF Len(ls) = 0 THEN <<>> ELSE Head(ls) \o <<rd>> \o FlattenWith(Tail(ls), rd)

\* Up to MaxBuilderLines lines ended by rd, the last one with or without it
BuilderSources(rd) ==
    LET full == UNION {{FlattenWith(ls, rd) : ls \in [1..n -> BuilderLineShapes]} :
                          n \in 0..MaxBuilderLines}
    IN  full \cup {SubSeq(s, 1, Len(s) - 1) : s \in full \ {<<>>}}

InitBuilder ==
    /\ record_delimiter \in RecordDelimiters
    /\ field_delimiter \in FieldDelimiters
    /\ stream \in BuilderSources(record_delimiter)
    /\ args = <<>>
    /\ New
    /\ NoLoop

SpecBuilder == InitBuilder /\ [][Next]_vars

\* --------------------------------------------------------------------- C20
\* C20: whatever the record delimiter of the reader is, no field of a Fields
\* record that was delivered or is held in the peek slot contains the record
\* delimiter byte, and the record read from a line that is the record
\* delimiter alone is Blank.
C20_NoDelimiterIn(rec) ==
    IsFields(rec) =>
        \A i \in 1..Len(rec.fields) :
            \A j \in 1..Len(rec.fields[i]) : rec.fields[i][j] # record_delimiter

C20_RecordDelimiterNotInField ==
    /\ \A i \in 1..Len(delivered) : C20_NoDelimiterIn(delivered[i])
    /\ peek_buf.some => C20_NoDelimiterIn(peek_buf.val)
    /\ (/\ op \in {"next_record", "peek_record"}
        /\ nreads = 1
        /\ ret.ok
        /\ LineEndingAt(pos) = <<record_delimiter>>) => ret.val = Blank

\* ------------------------------------------------------ the example driver
\* test_datablock_reader of examples/main.rs:
\*     while let Some(vec) = rdr.next_block().unwrap() {
\*         println!(vec); rdr.consume_blanks().unwrap(); }
\* over sources that do not fail and whose fields all parse. accum is the
\* rows printed so far.
DriverLineShapes ==
    { <<>>, <<" ">>, <<"1">>, <<"2", ",", " ", "1">>, <<"#", ",">> }

DriverSources ==
    LET full == UNION {{Flatten(ls) : ls \in [1..n -> DriverLineShapes]} :
                          n \in 0..MaxDriverLines}
    IN  full \cup {SubSeq(s, 1, Len(s) - 1) : s \in full \ {<<>>}}

InitDriver ==
    /\ stream \in DriverSources
    /\ record_delimiter = "\n"
    /\ field_delimiter = ","
    /\ args = <<>>
    /\ New
    /\ pc = "while"
    /\ accum = <<>>

\* The loop after next_block has returned r: unwrap, then the body for
\* Some(vec), the end of the loop for None
DriverAfterNextBlock(r) ==
    /\ Commit("next_block", r)
    /\ args' = <<>>
    /\ pc' = IF ~r.ret.ok THEN "panicked" ELSE IF r.ret.val.some THEN "body" ELSE "done"
    /\ accum' = IF r.ret.ok /\ r.ret.val.some THEN accum \o r.ret.val.val ELSE accum

DriverNextBlock ==
    /\ pc = "while"
    /\ DriverAfterNextBlock(next_block(Self))

DriverAfterConsumeBlanks(r) ==
    /\ Commit("consume_blanks", r)
    /\ args' = <<>>
    /\ pc' = IF r.ret.ok THEN "while" ELSE "panicked"
    /\ accum' = accum

DriverConsumeBlanks ==
    /\ pc = "body"
    /\ DriverAfterConsumeBlanks(consume_blanks(Self))

NextDriver ==
    \/ DriverNextBlock
    \/ DriverConsumeBlanks

SpecDriver == InitDriver /\ [][NextDriver]_vars

\* --------------------------------------------------------------------- C18
\* C18: the rows the driver has printed are, in order and one each, the
\* rows of the first Fields lines of the source, and when its loop has ended
\* (next_block has returned None) they are the rows of all the Fields lines.
C18_AllRows == RowsOf(ExpectedRecords)

C18_DriverDeliversEveryRow ==
    /\ Len(accum) <= Len(C18_AllRows)
    /\ accum = SubSeq(C18_AllRows, 1, Len(accum))
    /\ pc = "done" => accum = C18_AllRows

\* --------------------------------------------- the loops, one pass at a time
\* next_block and consume_blanks run as the code runs them: the call sets
\* up its local (block, count), then every step is one pass through the body
\* of its loop; accum holds the two locals. nreads and ntaken add up over
\* the passes of the call. The sources include one that fails for good; a
\* caller that holds a text instead of a reader iterates over enum_fields
\* of it.
TermLineShapes ==
    { <<>>, <<"1">>, <<"#", ",">>, <<"x">>, <<"0xFF">>, <<"1", "IOERR", "2">>, <<"IOFAIL">> }

TermSources ==
    LET full == UNION {{Flatten(ls) : ls \in [1..n -> TermLineShapes]} :
                          n \in 0..MaxTermLines}
    IN  full \cup {SubSeq(s, 1, Len(s) - 1) : s \in full \ {<<>>}}

TermTexts == UNION {[1..n -> TextBytes] : n \in 0..MaxTermText}

InitTerm ==
    /\ \/ /\ stream \in TermSources
          /\ args = <<>>
       \/ /\ stream = <<>>
          /\ args \in {<<d, t>> : d \in TokDelimiters, t \in TermTexts}
    /\ record_delimiter = "\n"
    /\ field_delimiter = ","
    /\ New
    /\ pc = "caller"
    /\ accum = [block |-> None, count |-> 0]

\* The entry of next_block or consume_blanks: its local is initialised, and
\* there is no return value until it returns
Begin(name, local) ==
    /\ pc = "caller"
    /\ Len(args) = 0
    /\ pc' = name
    /\ op' = name
    /\ accum' = local
    /\ nreads' = 0
    /\ ntaken' = 0
    /\ ret' = None
    /\ UNCHANGED <<stream, pos, record_delimiter, field_delimiter, buffer, peek_buf,
                   delivered, args, iter, yielded>>

\* let mut block = None
BeginNextBlock == Begin("next_block", [accum EXCEPT !.block = None])

\* let mut count = 0
BeginConsumeBlanks == Begin("consume_blanks", [accum EXCEPT !.count = 0])

\* The state after one pass through the body of the loop ended in it,
\* leaving the locals as `locals`
Pass(it, locals) ==
    /\ pos' = it.self.pos
    /\ field_delimiter' = it.self.field_delimiter
    /\ buffer' = it.self.buffer
    /\ peek_buf' = it.self.peek_buf
    /\ nreads' = nreads + it.self.reads
    /\ ntaken' = ntaken + Len(it.self.log)
    /\ delivered' = delivered \o it.self.log
    /\ pc' = IF it.done THEN "caller" ELSE pc
    /\ ret' = IF it.done THEN it.ret ELSE ret
    /\ accum' = locals
    /\ UNCHANGED <<stream, record_delimiter, op, args, iter, yielded>>

NextBlockPassTo(it) ==
    Pass(it, IF it.done THEN accum ELSE [accum EXCEPT !.block = it.acc])

NextBlockPass ==
    /\ pc = "next_block"
    /\ NextBlockPassTo(next_block_peeked(peek_record(Self), accum.block))

ConsumeBlanksPassTo(it) ==
    Pass(it, IF it.done THEN accum ELSE [accum EXCEPT !.count = it.acc])

ConsumeBlanksPass ==
    /\ pc = "consume_blanks"
    /\ ConsumeBlanksPassTo(consume_blanks_peeked(peek_record(Self), accum.count))

NextTerm ==
    \/ BeginNextBlock
    \/ NextBlockPass
    \/ BeginConsumeBlanks
    \/ ConsumeBlanksPass
    \/ EnumFields
    \/ IterNext

\* A loop that has started goes on: the thread that runs it is not stopped
\* from outside, and a caller iterating over the fields calls next until it
\* gets None. A pass is possible exactly when pc is in the loop, so weak
\* fairness of the pass, WF_vars(NextBlockPass), is written out with
\* pc = "next_block" for ENABLED <<NextBlockPass>>_vars; the same for
\* consume_blanks.
LoopsGoOn ==
    /\ []<>(pc # "next_block") \/ []<><<NextBlockPass>>_vars
    /\ []<>(pc # "consume_blanks") \/ []<><<ConsumeBlanksPass>>_vars
    /\ WF_vars(IterNext)

SpecTerm == InitTerm /\ [][NextTerm]_vars /\ LoopsGoOn

\* --------------------------------------------------------------------- C16
\* C16: every call of next_block and of consume_blanks returns: a pass
\* through the loop reads the source at most once and either returns or
\* consumes exactly one record, which leaves one record less to come; a
\* pass whose read fails returns the I/O error at once, so a call on a
\* source that fails on every read returns after its first failed read; and
\* the iteration over enum_fields of a text yields no more fields than the
\* text has bytes and ends with None.
\* The records still to come: the lines not yet read and the held record
C16_Remaining ==
    Len(Lines(SubSeq(stream, pos + 1, Len(stream))))
        + (IF peek_buf.some /\ peek_buf.val # EOF THEN 1 ELSE 0)

\* The next read of the source fails
C16_ReadFails ==
    /\ ~peek_buf.some
    /\ \E k \in (pos + 1)..Len(stream) :
          /\ stream[k] \in {"IOERR", "IOFAIL"}
          /\ \A j \in (pos + 1)..(k - 1) : stream[j] # record_delimiter

C16_Step ==
    /\ (pc # "caller" /\ ~UNCHANGED <<pc, pos, nreads, delivered>>) =>
          /\ nreads' <= nreads + 1
          /\ pc' \in {pc, "caller"}
          /\ pc' = pc =>
                /\ ntaken' = ntaken + 1
                /\ Len(delivered') = Len(delivered) + 1
                /\ C16_Remaining' = C16_Remaining - 1
          /\ C16_ReadFails =>
                /\ pc' = "caller"
                /\ ret' = Err(ReaderErrorIo)
                /\ nreads' = nreads + 1
                /\ ntaken' = ntaken
    /\ Len(args) = 2 =>
          /\ Len(yielded') <= Len(args[2])
          /\ (op' = "next" /\ ret' # None) => Len(iter'.val.record) < Len(iter.val.record)

C16_Terminates ==
    /\ [][C16_Step]_vars
    /\ (pc # "caller") ~> (pc = "caller")
    /\ iter.some ~> TokDone

\* next_block has consumed a record and returned the error of the one read
\* it made of a source that fails on every read
C16_Witness ==
    /\ pc = "caller"
    /\ op = "next_block"
    /\ ret = Err(ReaderErrorIo)
    /\ ntaken = 1
    /\ nreads = 2
    /\ pos < Len(stream)
    /\ stream[pos + 1] = "IOFAIL"

====
